---- MODULE Spec2Model ----
(***************************************************************************)
(* Model of the flightcheck worker (src/flightcheck/index.js): the         *)
(* cycle:start handler, runHooks (discovery filter, hook fan-out,          *)
(* Promise.all, aggregation, stamping) and the cycle:finished publication. *)
(* Strings whose characters the code inspects (paths, the test phase) are  *)
(* sequences of one-character strings.                                     *)
(***************************************************************************)
EXTENDS Integers, Sequences, FiniteSets, TLC

\* ------------------------------------------------------------------ bounds
\* number of cycle:start events the bus delivers
MaxJobs == 2
\* number of files in the flightcheck directory tree
MaxFiles == 2
\* length of a result sequence the aggregation is applied to on its own
MaxResults == 3

Jobs == 1..MaxJobs

\* JavaScript null / undefined (data.release, pkg[i].issue)
Null == <<>>

\* --------------------------------------------------------- string helpers
Min(S) == CHOOSE m \in S : \A n \in S : m <= n

Max(S) == CHOOSE m \in S : \A n \in S : n <= m

\* String.prototype.indexOf: first 0-based position of t in s, or -1
IndexOf(s, t) ==
  LET at == {i \in 0..(Len(s) - Len(t)) : SubSeq(s, i + 1, i + Len(t)) = t}
  IN  IF at = {} THEN -1 ELSE Min(at)

Upper == <<"A", "B", "C", "D", "E", "F", "G", "H", "I", "J", "K", "L", "M",
           "N", "O", "P", "Q", "R", "S", "T", "U", "V", "W", "X", "Y", "Z">>

Lower == <<"a", "b", "c", "d", "e", "f", "g", "h", "i", "j", "k", "l", "m",
           "n", "o", "p", "q", "r", "s", "t", "u", "v", "w", "x", "y", "z">>

LowerChar(c) ==
  IF \E i \in 1..Len(Upper) : Upper[i] = c
  THEN Lower[CHOOSE i \in 1..Len(Upper) : Upper[i] = c]
  ELSE c

\* String.prototype.toLowerCase
ToLowerCase(s) == [i \in 1..Len(s) |-> LowerChar(s[i])]

\* String.prototype.startsWith
StartsWith(s, t) == Len(s) >= Len(t) /\ SubSeq(s, 1, Len(t)) = t

\* the template literal `${test.toLowerCase()}.js`
TestFile(t) == ToLowerCase(t) \o <<".", "j", "s">>

\* ------------------------------------------------------------ input sets
RootPre  == <<"p", "r", "e", ".", "j", "s">>
RootPost == <<"p", "o", "s", "t", ".", "j", "s">>
SubPre   == <<"a", "/", "p", "r", "e", ".", "j", "s">>
SubPost  == <<"a", "/", "p", "o", "s", "t", ".", "j", "s">>
PreDir   == <<"p", "r", "e", ".", "j", "s", "/", "x", ".", "j", "s">>

\* files that may exist under the flightcheck directory
Paths == {RootPre, RootPost, SubPre, SubPost, PreDir}

\* a tree is the listing of its files in the traversal order of the walk
Listings(S) ==
  {s \in [1..Cardinality(S) -> S] : \A i, k \in 1..Cardinality(S) : s[i] = s[k] => i = k}

\* every tree of at most MaxFiles files, in every traversal order
Trees == UNION {Listings(S) : S \in {T \in SUBSET Paths : Cardinality(T) <= MaxFiles}}

\* the trees the worker is run on: no module in a subdirectory, one, two
WorkerTrees == {<<RootPre>>, <<RootPost, SubPre>>, <<SubPost, SubPre>>}

\* the phase the handler passes to runHooks
Pre == <<"p", "r", "e">>

\* phases runHooks is applied to when discovery is checked on its own
Phases == {Pre, <<"P", "R", "E">>, <<"p", "o", "s", "t">>, <<"P", "o", "s", "t">>}

\* values a hook's run() may resolve with
PartialResults ==
  { [errors |-> 1, warnings |-> 0, information |-> [k \in {"a"} |-> 1],
     issue |-> [title |-> "x", body |-> "y"]],
    [errors |-> 0, warnings |-> 2,
     information |-> [k \in {"a", "b"} |-> IF k = "a" THEN 2 ELSE 3],
     issue |-> Null] }

\* values handed to the aggregation on its own: the two above, a second issue,
\* and a result that carries cycle, project and release of its own
AggResults ==
  PartialResults \cup
  { [errors |-> 2, warnings |-> 1, information |-> [k \in {"b"} |-> 4],
     issue |-> [title |-> "z", body |-> "w"]],
    [errors |-> 0, warnings |-> 0, information |-> [k \in {"cycle"} |-> 9],
     issue |-> Null, cycle |-> <<"c", 9>>, project |-> <<"p", 9>>, release |-> <<"r", 9>>] }

\* the payload of the j-th cycle:start event
Data(j) ==
  [ cycle   |-> [_id |-> <<"c", j>>],
    project |-> [_id |-> <<"p", j>>, name |-> <<"App", j>>],
    release |-> IF j % 2 = 1 THEN Null ELSE [_id |-> <<"r", j>>] ]

\* ------------------------------------------------------------------ state
VARIABLES
  tree,     \* files under the flightcheck directory
  test,     \* the `test` argument of runHooks
  pc,       \* per job: position of the handler / runHooks promise chain
  hooks,    \* per job: result of fsHelper.walk, a sequence of module paths
  tests,    \* per job: the promises returned by run(), one per started hook
  order,    \* per job: indices of tests in the order they settled
  all,      \* per job: state of Promise.all(tests)
  pkg,      \* per job: value Promise.all fulfilled with
  obj,      \* per job: object built by the aggregation loop
  report,   \* per job: value runHooks resolved with
  logs,     \* per job: log calls made
  sent,     \* connection.send calls, in order
  aggR,     \* aggregation on its own: the results handed to the first .then
  aggJob,   \* aggregation on its own: the job whose data is stamped
  aggOut,   \* aggregation on its own: the value the second .then returns
  aggDone,  \* aggregation on its own: the two .then have run
  env,      \* configuration: process.env, variable name to string value
  envConf,  \* configuration: the Config getEnvironmentConfig returned
  progConf, \* configuration: the Config getProgramConfig returned
  fileConf, \* configuration: the Config getFileConfig returned
  config,   \* configuration: the Config getConfig returned
  cpc       \* configuration: position inside getConfig

\* the state of the aggregation applied on its own
aggVars == <<aggR, aggJob, aggOut, aggDone>>

\* the state the worker leaves alone
\* the state of the configuration loader
confVars == <<env, envConf, progConf, fileConf, config, cpc>>

aside == <<aggVars, confVars>>

vars == <<tree, test, pc, hooks, tests, order, all, pkg, obj, report, logs, sent, aside>>

\* --------------------------------------------------------------- discovery
\* Filter without its first line: root modules fall through to the name test
FilterNoRootCheck(path, t) == IndexOf(path, TestFile(t)) # 0

\* the filter callback given to fsHelper.walk
Filter(path, t) ==
  IF IndexOf(path, <<"/">>) = -1
    THEN FALSE
    ELSE IndexOf(path, TestFile(t)) # 0

\* fsHelper.walk: the modules of the tree the filter accepts, in traversal order
Walk(T, t) == LET Accept(p) == Filter(p, t) IN SelectSeq(T, Accept)

\* ------------------------------------------------------------- aggregation
\* Object.assign with its arguments swapped: the earlier writer keeps the key
ObjectAssignTargetWins(target, source) ==
  [k \in (DOMAIN target) \cup (DOMAIN source) |->
     IF k \in DOMAIN target THEN target[k] ELSE source[k]]

\* Object.assign(target, source) on plain maps
ObjectAssign(target, source) ==
  [k \in (DOMAIN target) \cup (DOMAIN source) |->
     IF k \in DOMAIN source THEN source[k] ELSE target[k]]

EmptyObj == [errors |-> 0, warnings |-> 0, information |-> <<>>, issues |-> <<>>]

\* LoopBody with `=` where the code adds: the counters hold the last hook's
LoopBodyNoSum(o, r) ==
  [ errors      |-> r.errors,
    warnings    |-> r.warnings,
    information |-> [k \in (DOMAIN o.information) \cup (DOMAIN r.information) |->
                       IF k \in DOMAIN r.information THEN r.information[k] ELSE o.information[k]],
    issues      |-> IF r.issue # Null THEN Append(o.issues, r.issue) ELSE o.issues ]

\* LoopBody that replaces information instead of merging into it
LoopBodyNoMerge(o, r) ==
  [ errors      |-> r.errors + o.errors,
    warnings    |-> r.warnings + o.warnings,
    information |-> r.information,
    issues      |-> IF r.issue # Null THEN Append(o.issues, r.issue) ELSE o.issues ]

\* LoopBody with unshift where the code pushes
LoopBodyUnshift(o, r) ==
  [ errors      |-> r.errors + o.errors,
    warnings    |-> r.warnings + o.warnings,
    information |-> ObjectAssign(o.information, r.information),
    issues      |-> IF r.issue # Null THEN <<r.issue>> \o o.issues ELSE o.issues ]

\* LoopBody that also copies the result itself into obj
LoopBodySpread(o, r) ==
  ObjectAssign(r,
    [ errors      |-> r.errors + o.errors,
      warnings    |-> r.warnings + o.warnings,
      information |-> ObjectAssign(o.information, r.information),
      issues      |-> IF r.issue # Null THEN Append(o.issues, r.issue) ELSE o.issues ])

\* one iteration of the body of the for-in loop
LoopBody(o, r) ==
  [ errors      |-> r.errors + o.errors,
    warnings    |-> r.warnings + o.warnings,
    information |-> ObjectAssign(o.information, r.information),
    issues      |-> IF r.issue # Null THEN Append(o.issues, r.issue) ELSE o.issues ]

RECURSIVE ForIn(_, _, _)
\* for (const i in p): indices of p in ascending order, none when p is undefined
ForIn(p, i, o) ==
  IF i > Len(p) THEN o ELSE ForIn(p, i + 1, LoopBody(o, p[i]))

\* Stamped that leaves release out when the job carries none
StampedOmitsNullRelease(d, o) ==
  ObjectAssign(
    IF d.release # Null
      THEN [cycle |-> d.cycle._id, project |-> d.project._id, release |-> d.release._id]
      ELSE [cycle |-> d.cycle._id, project |-> d.project._id],
    o)

\* the second .then of runHooks: Object.assign({cycle, project, release}, pkg)
Stamped(d, o) ==
  ObjectAssign(
    [ cycle   |-> d.cycle._id,
      project |-> d.project._id,
      release |-> IF d.release # Null THEN d.release._id ELSE Null ],
    o)

EmptyReport == Stamped([cycle |-> [_id |-> Null], project |-> [_id |-> Null], release |-> Null], EmptyObj)

\* what log.error(err) returns, the value the .catch passes on: undefined
LogError == Null

\* ------------------------------------------------------------------- init
InitJobs ==
  /\ pc = [j \in Jobs |-> "idle"]
  /\ hooks = [j \in Jobs |-> <<>>]
  /\ tests = [j \in Jobs |-> <<>>]
  /\ order = [j \in Jobs |-> <<>>]
  /\ all = [j \in Jobs |-> "none"]
  /\ pkg = [j \in Jobs |-> <<>>]
  /\ obj = [j \in Jobs |-> EmptyObj]
  /\ report = [j \in Jobs |-> EmptyReport]
  /\ logs = [j \in Jobs |-> {}]
  /\ sent = <<>>

\* nothing is handed to the aggregation on its own
InitAgg ==
  /\ aggR = <<>>
  /\ aggJob = 1
  /\ aggOut = EmptyReport
  /\ aggDone = FALSE

\* a Config with nothing set, as new Config() gives it
EmptyConfig == <<>>

\* getConfig not called
InitConf ==
  /\ env = <<>>
  /\ envConf = EmptyConfig
  /\ progConf = EmptyConfig
  /\ fileConf = EmptyConfig
  /\ config = EmptyConfig
  /\ cpc = "start"

Init ==
  /\ tree \in WorkerTrees
  /\ test = Pre
  /\ InitJobs
  /\ InitAgg
  /\ InitConf

\* runHooks applied to any tree and any phase
DiscInit ==
  /\ tree \in Trees
  /\ test \in Phases
  /\ InitJobs
  /\ InitAgg
  /\ InitConf

\* ---------------------------------------------------------------- actions
\* connection.on('cycle:start'): the handler runs up to the await in runHooks;
\* events are numbered in the order the bus delivers them
CycleStart(j) ==
  /\ pc[j] = "idle"
  /\ \A k \in Jobs : k < j => pc[k] # "idle"
  /\ pc' = [pc EXCEPT ![j] = "walk"]
  /\ logs' = [logs EXCEPT ![j] = @ \cup {"debug:start"}]
  /\ UNCHANGED <<tree, test, hooks, tests, order, all, pkg, obj, report, sent>>
  /\ UNCHANGED aside

Pending == [state |-> "pending", value |-> Null]

\* fsHelper.walk resolves; hooks.map constructs and starts every hook and
\* Promise.all(tests) is created.  A constructor or run() that throws
\* synchronously at hook n rejects runHooks with hooks 1..n-1 already started.
WalkResolve(j) ==
  /\ pc[j] = "walk"
  /\ LET hs == Walk(tree, test) IN
       /\ hooks' = [hooks EXCEPT ![j] = hs]
       /\ \/ /\ tests' = [tests EXCEPT ![j] = [i \in 1..Len(hs) |-> Pending]]
             /\ pc' = [pc EXCEPT ![j] = "tests"]
             /\ all' = [all EXCEPT ![j] = IF Len(hs) = 0 THEN "fulfilled" ELSE "pending"]
          \/ \E n \in 1..Len(hs) :
               /\ tests' = [tests EXCEPT ![j] = [i \in 1..(n - 1) |-> Pending]]
               /\ pc' = [pc EXCEPT ![j] = "rejected"]
               /\ all' = all
  /\ UNCHANGED <<tree, test, order, pkg, obj, report, logs, sent>>
  /\ UNCHANGED aside

\* fsHelper.walk rejects (directory missing or unreadable)
WalkReject(j) ==
  /\ pc[j] = "walk"
  /\ pc' = [pc EXCEPT ![j] = "rejected"]
  /\ UNCHANGED <<tree, test, hooks, tests, order, all, pkg, obj, report, logs, sent>>
  /\ UNCHANGED aside

AllFulfilled(ts) == \A i \in 1..Len(ts) : ts[i].state = "fulfilled"

\* a hook's run() promise fulfils with r; Promise.all fulfils once every
\* element has fulfilled, with the values in the order of tests
HookResolve(j, i, r) ==
  /\ i \in 1..Len(tests[j])
  /\ tests[j][i].state = "pending"
  /\ LET ts == [tests[j] EXCEPT ![i] = [state |-> "fulfilled", value |-> r]]
     IN  /\ tests' = [tests EXCEPT ![j] = ts]
         /\ IF all[j] = "pending" /\ AllFulfilled(ts)
              THEN /\ all' = [all EXCEPT ![j] = "fulfilled"]
                   /\ pkg' = [pkg EXCEPT ![j] = [k \in 1..Len(ts) |-> ts[k].value]]
              ELSE UNCHANGED <<all, pkg>>
  /\ order' = [order EXCEPT ![j] = Append(@, i)]
  /\ UNCHANGED <<tree, test, pc, hooks, obj, report, logs, sent>>
  /\ UNCHANGED aside

\* a hook's run() promise rejects; Promise.all rejects with the first rejection
HookReject(j, i) ==
  /\ i \in 1..Len(tests[j])
  /\ tests[j][i].state = "pending"
  /\ tests' = [tests EXCEPT ![j][i] = [state |-> "rejected", value |-> Null]]
  /\ all' = [all EXCEPT ![j] = IF @ = "pending" THEN "rejected" ELSE @]
  /\ order' = [order EXCEPT ![j] = Append(@, i)]
  /\ UNCHANGED <<tree, test, pc, hooks, pkg, obj, report, logs, sent>>
  /\ UNCHANGED aside

\* Aggregate as if the rejection handler returned the values fulfilled so far
AggregateFulfilled(j) ==
  /\ pc[j] = "tests"
  /\ all[j] \in {"fulfilled", "rejected"}
  /\ logs' = [logs EXCEPT ![j] = IF all[j] = "rejected" THEN @ \cup {"error"} ELSE @]
  /\ LET IsFulfilled(t) == t.state = "fulfilled"
         done == SelectSeq(tests[j], IsFulfilled)
         o == ForIn([k \in 1..Len(done) |-> done[k].value], 1, EmptyObj)
     IN  /\ obj' = [obj EXCEPT ![j] = o]
         /\ report' = [report EXCEPT ![j] = Stamped(Data(j), o)]
  /\ pc' = [pc EXCEPT ![j] = "resolved"]
  /\ UNCHANGED <<tree, test, hooks, tests, order, all, pkg, sent>>
  /\ UNCHANGED aside

\* Aggregate with obj kept at module level: the loop goes on from the object
\* the previous run left
AggregateSharedObj(j) ==
  /\ pc[j] = "tests"
  /\ all[j] \in {"fulfilled", "rejected"}
  /\ logs' = [logs EXCEPT ![j] = IF all[j] = "rejected" THEN @ \cup {"error"} ELSE @]
  /\ LET shared == obj[IF j = 1 THEN MaxJobs ELSE j - 1]
         o == ForIn(IF all[j] = "rejected" THEN LogError ELSE pkg[j], 1, shared)
     IN  /\ obj' = [obj EXCEPT ![j] = o]
         /\ report' = [report EXCEPT ![j] = Stamped(Data(j), o)]
  /\ pc' = [pc EXCEPT ![j] = "resolved"]
  /\ UNCHANGED <<tree, test, hooks, tests, order, all, pkg, sent>>
  /\ UNCHANGED aside

\* the reactions chained on Promise.all(tests), which run back to back once
\* it has settled: .catch logs a rejection and yields undefined, the first
\* .then runs the loop (over nothing when given undefined), the second .then
\* stamps the result with the identifiers of the job and resolves runHooks
Aggregate(j) ==
  /\ pc[j] = "tests"
  /\ all[j] \in {"fulfilled", "rejected"}
  /\ logs' = [logs EXCEPT ![j] = IF all[j] = "rejected" THEN @ \cup {"error"} ELSE @]
  /\ LET o == ForIn(IF all[j] = "rejected" THEN LogError ELSE pkg[j], 1, EmptyObj)
     IN  /\ obj' = [obj EXCEPT ![j] = o]
         /\ report' = [report EXCEPT ![j] = Stamped(Data(j), o)]
  /\ pc' = [pc EXCEPT ![j] = "resolved"]
  /\ UNCHANGED <<tree, test, hooks, tests, order, all, pkg, sent>>
  /\ UNCHANGED aside

\* Send addressed to the worker's own name instead of 'houston'
SendToSelf(j) ==
  /\ pc[j] = "resolved"
  /\ sent' = Append(sent, [to |-> "flightcheck", event |-> "cycle:finished", payload |-> report[j], job |-> j])
  /\ logs' = [logs EXCEPT ![j] = @ \cup {"debug:found"}]
  /\ pc' = [pc EXCEPT ![j] = "finished"]
  /\ UNCHANGED <<tree, test, hooks, tests, order, all, pkg, obj, report>>
  /\ UNCHANGED aside

\* Send without waiting for runHooks: the report is sent as soon as the hooks
\* have been started
SendBeforeResolved(j) ==
  /\ pc[j] \in {"tests", "resolved"}
  /\ sent' = Append(sent, [to |-> "houston", event |-> "cycle:finished", payload |-> report[j], job |-> j])
  /\ logs' = [logs EXCEPT ![j] = @ \cup {"debug:found"}]
  /\ pc' = [pc EXCEPT ![j] = "finished"]
  /\ UNCHANGED <<tree, test, hooks, tests, order, all, pkg, obj, report>>
  /\ UNCHANGED aside

\* Send behind a queue: a report waits until every earlier run has completed
SendInTurn(j) ==
  /\ pc[j] = "resolved"
  /\ \A k \in Jobs : k < j => pc[k] \in {"finished", "failed"}
  /\ sent' = Append(sent, [to |-> "houston", event |-> "cycle:finished", payload |-> report[j], job |-> j])
  /\ logs' = [logs EXCEPT ![j] = @ \cup {"debug:found"}]
  /\ pc' = [pc EXCEPT ![j] = "finished"]
  /\ UNCHANGED <<tree, test, hooks, tests, order, all, pkg, obj, report>>
  /\ UNCHANGED aside

\* the handler's .then: connection.send('houston', 'cycle:finished', pkg);
\* the field job records which invocation of the handler made the call
Send(j) ==
  /\ pc[j] = "resolved"
  /\ sent' = Append(sent, [to |-> "houston", event |-> "cycle:finished", payload |-> report[j], job |-> j])
  /\ logs' = [logs EXCEPT ![j] = @ \cup {"debug:found"}]
  /\ pc' = [pc EXCEPT ![j] = "finished"]
  /\ UNCHANGED <<tree, test, hooks, tests, order, all, pkg, obj, report>>
  /\ UNCHANGED aside

\* Catch that answers the failed run with a cycle:finished of its own
CatchAndSend(j) ==
  /\ pc[j] = "rejected"
  /\ logs' = [logs EXCEPT ![j] = @ \cup {"warn"}]
  /\ sent' = Append(sent, [to |-> "houston", event |-> "cycle:finished", payload |-> report[j], job |-> j])
  /\ pc' = [pc EXCEPT ![j] = "failed"]
  /\ UNCHANGED <<tree, test, hooks, tests, order, all, pkg, obj, report>>
  /\ UNCHANGED aside

\* the handler's .catch: log.warn twice, nothing is sent
Catch(j) ==
  /\ pc[j] = "rejected"
  /\ logs' = [logs EXCEPT ![j] = @ \cup {"warn"}]
  /\ pc' = [pc EXCEPT ![j] = "failed"]
  /\ UNCHANGED <<tree, test, hooks, tests, order, all, pkg, obj, report, sent>>
  /\ UNCHANGED aside

Next ==
  \/ \E j \in Jobs : CycleStart(j)
  \/ \E j \in Jobs : WalkResolve(j)
  \/ \E j \in Jobs : WalkReject(j)
  \/ \E j \in Jobs : \E i \in 1..Len(tests[j]) : \E r \in PartialResults : HookResolve(j, i, r)
  \/ \E j \in Jobs : \E i \in 1..Len(tests[j]) : HookReject(j, i)
  \/ \E j \in Jobs : Aggregate(j)
  \/ \E j \in Jobs : Send(j)
  \/ \E j \in Jobs : Catch(j)

Spec == Init /\ [][Next]_vars

\* the worker's own state
workerVars == <<tree, test, pc, hooks, tests, order, all, pkg, obj, report, logs, sent>>

\* result sequences of at most MaxResults entries
AggInputs == UNION {[1..n -> AggResults] : n \in 0..MaxResults}

\* the aggregation applied to any result sequence and any job
AggInit ==
  /\ tree = <<RootPre>>
  /\ test = Pre
  /\ InitJobs
  /\ aggR \in AggInputs
  /\ aggJob \in Jobs
  /\ aggOut = EmptyReport
  /\ aggDone = FALSE
  /\ InitConf

\* the two .then of runHooks run on aggR for the job aggJob
AggApply ==
  /\ ~aggDone
  /\ aggOut' = Stamped(Data(aggJob), ForIn(aggR, 1, EmptyObj))
  /\ aggDone' = TRUE
  /\ UNCHANGED <<aggR, aggJob, workerVars, confVars>>

AggNext == AggApply

AggSpec == AggInit /\ [][AggNext]_vars

\* a promise reaction that is ready to run
Reaction == \E j \in Jobs : Aggregate(j) \/ Send(j) \/ Catch(j)

\* the event loop runs the reactions of settled promises; nothing obliges the
\* bus to deliver an event, the walk to end or a hook's run() to settle
FairSpec == Spec /\ WF_vars(Reaction)

\* discovery on its own: the handler up to the start of the hooks
DiscNext ==
  \/ \E j \in Jobs : CycleStart(j)
  \/ \E j \in Jobs : WalkResolve(j)
  \/ \E j \in Jobs : WalkReject(j)

DiscSpec == DiscInit /\ [][DiscNext]_vars

\* ------------------------------------------------------ configuration loader
\* the most environment variables set at once
MaxVars == 2

RECURSIVE Split(_, _)
\* String.prototype.split on a separator of one character
Split(s, c) ==
  LET at == {i \in 1..Len(s) : s[i] = c}
  IN  IF at = {} THEN <<s>>
      ELSE <<SubSeq(s, 1, Min(at) - 1)>> \o Split(SubSeq(s, Min(at) + 1, Len(s)), c)

\* Array.prototype.splice(1): the elements from index 1 on
Splice1(a) == SubSeq(a, 2, Len(a))

RECURSIVE Join(_, _)
\* Array.prototype.join
Join(a, c) ==
  IF a = <<>> THEN <<>>
  ELSE IF Len(a) = 1 THEN a[1]
  ELSE a[1] \o <<c>> \o Join(Tail(a), c)

\* String.prototype.replace with a string pattern: the first occurrence only
Replace(s, pat, new) ==
  LET i == IndexOf(s, pat)
  IN  IF i = -1 THEN s
      ELSE SubSeq(s, 1, i) \o new \o SubSeq(s, i + Len(pat) + 1, Len(s))

\* String.prototype.trim
Trim(s) ==
  LET ink == {i \in 1..Len(s) : s[i] \notin {" ", "\n", "\t"}}
  IN  IF ink = {} THEN <<>> ELSE SubSeq(s, Min(ink), Max(ink))

environmentPrefix == <<"H", "O", "U", "S", "T", "O", "N">>

stringToDot(str) ==
  Replace(Join(Splice1(Split(ToLowerCase(str), "_")), "."),
          <<"e", "n", "v">>,
          <<"e", "n", "v", "i", "r", "o", "n", "m", "e", "n", "t">>)

\* values held by a Config: a string or a number, the number by its digits
Str(t) == [type |-> "string", text |-> t]

Num(t) == [type |-> "number", text |-> t]

\* Number(string) followed by the isNaN test, for the empty string, strings
\* of digits without a leading zero, and strings with a letter
NumberOrString(t) ==
  IF t = <<>> THEN Num(<<"0">>)
  ELSE IF \A i \in 1..Len(t) : t[i] \in {"0", "1", "2", "3", "4", "5", "6", "7", "8", "9"}
       THEN Num(t)
       ELSE Str(t)

\* Config.set on a dot path
ConfigSet(c, k, v) == [x \in DOMAIN c \cup {k} |-> IF x = k THEN v ELSE c[x]]

\* Config.merge: the keys of o are set over those of c
ConfigMerge(c, o) == [x \in DOMAIN c \cup DOMAIN o |-> IF x \in DOMAIN o THEN o[x] ELSE c[x]]

\* dot paths
KEnvironment == <<"e", "n", "v", "i", "r", "o", "n", "m", "e", "n", "t">>
KLogConsole == <<"l", "o", "g", ".", "c", "o", "n", "s", "o", "l", "e">>
KLogLevel == <<"l", "o", "g", ".", "l", "e", "v", "e", "l">>
KVersion == <<"h", "o", "u", "s", "t", "o", "n", ".", "v", "e", "r", "s", "i", "o", "n">>
KMajor == <<"h", "o", "u", "s", "t", "o", "n", ".", "m", "a", "j", "o", "r">>
KMinor == <<"h", "o", "u", "s", "t", "o", "n", ".", "m", "i", "n", "o", "r">>
KPatch == <<"h", "o", "u", "s", "t", "o", "n", ".", "p", "a", "t", "c", "h">>
KCommit == <<"h", "o", "u", "s", "t", "o", "n", ".", "c", "o", "m", "m", "i", "t">>
KChange == <<"h", "o", "u", "s", "t", "o", "n", ".", "c", "h", "a", "n", "g", "e">>

\* names of environment variables
NodeEnv == <<"N", "O", "D", "E", "_", "E", "N", "V">>
NodeDebug == <<"N", "O", "D", "E", "_", "D", "E", "B", "U", "G">>
HoustonLogLevel == environmentPrefix \o <<"_", "L", "O", "G", "_", "L", "E", "V", "E", "L">>
HoustonLogEnv == environmentPrefix \o <<"_", "L", "O", "G", "_", "E", "N", "V">>
HoustonEnvName == environmentPrefix \o <<"_", "E", "N", "V", "_", "N", "A", "M", "E">>
HoustonEnvEnv == environmentPrefix \o <<"_", "E", "N", "V", "_", "E", "N", "V">>
HoustonEnvironmentName ==
  environmentPrefix \o <<"_", "E", "N", "V", "I", "R", "O", "N", "M", "E", "N", "T", "_", "N", "A", "M", "E">>
HoustonVersion ==
  environmentPrefix \o <<"_", "H", "O", "U", "S", "T", "O", "N", "_", "V", "E", "R", "S", "I", "O", "N">>
Path == <<"P", "A", "T", "H">>

EnvNames ==
  {NodeEnv, NodeDebug, HoustonLogLevel, HoustonLogEnv, HoustonEnvName, HoustonEnvEnv,
   HoustonEnvironmentName, HoustonVersion, Path}

EnvValues == {<<>>, <<"8", "0">>, <<"d", "e", "v">>}

\* the environments the process can be started in
Environments ==
  UNION {[V -> EnvValues] : V \in {W \in SUBSET EnvNames : Cardinality(W) <= MaxVars}}

\* getEnvironmentConfig on process.env = e; the names of EnvNames transform to
\* different dot paths, so the order of Object.keys does not show
getEnvironmentConfig(e) ==
  LET keys == {key \in DOMAIN e : StartsWith(key, environmentPrefix)}
      names == {stringToDot(key) : key \in keys}
      prefixed == [name \in names |->
                     NumberOrString(e[CHOOSE key \in keys : stringToDot(key) = name])]
      withEnv == IF NodeEnv \in DOMAIN e
                 THEN ConfigSet(prefixed, KEnvironment, Str(e[NodeEnv]))
                 ELSE prefixed
  IN  IF NodeDebug \in DOMAIN e
      THEN ConfigSet(withEnv, KLogConsole, Str(<<"d", "e", "b", "u", "g">>))
      ELSE withEnv

\* a file that cannot be read or required
Missing == [type |-> "missing", text |-> <<>>]

\* package.json versions and contents of .git/ORIG_HEAD and .git/COMMIT_EDITMSG
PkgVersions == {Missing, Str(<<"1", ".", "2", ".", "3", "-", "r", "c">>)}

GitFiles == {Missing, Str(<<"a", "b", "\n">>)}

\* getProgramConfig; each try block sets nothing when its file is missing
getProgramConfig(version, commit, change) ==
  LET parts == Split(Split(version.text, "-")[1], ".")
      withPkg == IF version = Missing THEN EmptyConfig
                 ELSE ConfigSet(ConfigSet(ConfigSet(ConfigSet(EmptyConfig,
                        KVersion, Str(version.text)),
                        KMajor, Str(parts[1])),
                        KMinor, Str(parts[2])),
                        KPatch, Str(parts[3]))
      withCommit == IF commit = Missing THEN withPkg
                    ELSE ConfigSet(withPkg, KCommit, Str(Trim(commit.text)))
  IN  IF change = Missing THEN withCommit
      ELSE ConfigSet(withCommit, KChange, Str(Trim(change.text)))

\* path.resolve(process.cwd(), p)
Cwd == <<"/", "w">>

Resolve(p) == Cwd \o <<"/">> \o p

configurationPaths == <<Resolve(<<"c">>), <<"/", "e">>>>

\* the argument of getConfig: none, an absolute path or a relative one
PathArgs == {Null, <<"/", "a">>, <<"r">>}

\* the configuration files a disk can hold
DiskPaths == {configurationPaths[1], configurationPaths[2], <<"/", "a">>, Resolve(<<"r">>)}

\* what the module at path f exports
Exports(f) ==
  IF f = configurationPaths[1]
  THEN ConfigSet(ConfigSet(EmptyConfig, KLogLevel, Str(<<"i", "n", "f", "o">>)), KVersion, Str(<<"9">>))
  ELSE IF f = configurationPaths[2]
  THEN ConfigSet(EmptyConfig, KLogLevel, Str(<<"w", "a", "r", "n">>))
  ELSE IF f = <<"/", "a">>
  THEN ConfigSet(ConfigSet(EmptyConfig, KEnvironment, Str(<<"d", "e", "v">>)), KVersion, Str(<<"9">>))
  ELSE ConfigSet(EmptyConfig, KLogLevel, Num(<<"3">>))

\* require of a module that is not on the disk throws
Thrown == [type |-> "thrown"]

\* getFileConfig(p) on a disk holding the files of the set disk
getFileConfig(p, disk) ==
  LET found == {n \in 1..Len(configurationPaths) : configurationPaths[n] \in disk}
      wanted == IF StartsWith(p, <<"/">>) THEN p ELSE Resolve(p)
  IN  IF p # Null
      THEN IF wanted \in disk THEN ConfigMerge(EmptyConfig, Exports(wanted)) ELSE Thrown
      ELSE IF found = {} THEN ConfigMerge(EmptyConfig, EmptyConfig)
           ELSE ConfigMerge(EmptyConfig, Exports(configurationPaths[Min(found)]))

\* the merges of getConfig with the environment merged first
getConfigEnvironmentFirst(program, file, environment) ==
  ConfigMerge(ConfigMerge(ConfigMerge(EmptyConfig, environment), file), program)

\* the merges of getConfig
getConfig(program, file, environment) ==
  ConfigMerge(ConfigMerge(ConfigMerge(EmptyConfig, program), file), environment)

\* the process is started in some environment
ConfInit ==
  /\ tree = <<RootPre>>
  /\ test = Pre
  /\ InitJobs
  /\ InitAgg
  /\ env \in Environments
  /\ envConf = EmptyConfig
  /\ progConf = EmptyConfig
  /\ fileConf = EmptyConfig
  /\ config = EmptyConfig
  /\ cpc = "start"

\* getConfig, first statement
LoadEnvironment ==
  /\ cpc = "start"
  /\ envConf' = getEnvironmentConfig(env)
  /\ cpc' = "environment"
  /\ UNCHANGED <<env, progConf, fileConf, config, workerVars, aggVars>>

\* getConfig, second statement
LoadProgram ==
  /\ cpc = "environment"
  /\ \E version \in PkgVersions, commit, change \in GitFiles :
       progConf' = getProgramConfig(version, commit, change)
  /\ cpc' = "program"
  /\ UNCHANGED <<env, envConf, fileConf, config, workerVars, aggVars>>

\* getConfig, third statement: the file is loaded, or require throws and
\* getConfig with it
LoadFile ==
  /\ cpc = "program"
  /\ \E p \in PathArgs, disk \in SUBSET DiskPaths :
       LET file == getFileConfig(p, disk)
       IN  \/ /\ file # Thrown
              /\ fileConf' = file
              /\ cpc' = "file"
           \/ /\ file = Thrown
              /\ fileConf' = fileConf
              /\ cpc' = "thrown"
  /\ UNCHANGED <<env, envConf, progConf, config, workerVars, aggVars>>

\* getConfig, the merges and the return
LoadMerge ==
  /\ cpc = "file"
  /\ config' = getConfig(progConf, fileConf, envConf)
  /\ cpc' = "done"
  /\ UNCHANGED <<env, envConf, progConf, fileConf, workerVars, aggVars>>

ConfNext == LoadEnvironment \/ LoadProgram \/ LoadFile \/ LoadMerge

ConfSpec == ConfInit /\ [][ConfNext]_vars

\* ------------------------------------------------- vocabulary of the claims
Range(f) == {f[x] : x \in DOMAIN f}

RECURSIVE SumOver(_, _)
\* the sum of f over the finite set S
SumOver(f, S) ==
  IF S = {} THEN 0
  ELSE LET x == CHOOSE y \in S : TRUE IN f[x] + SumOver(f, S \ {x})

\* indices of the connection.send calls made for job j
SentFor(j) == {k \in 1..Len(sent) : sent[k].job = j}

\* the aggregation loop has run and runHooks has resolved for job j
Reported(j) == pc[j] \in {"resolved", "finished"}

HookIds(j) == 1..Len(tests[j])

FulfilledHooks(j) == {i \in HookIds(j) : tests[j][i].state = "fulfilled"}

RejectedHooks(j) == {i \in HookIds(j) : tests[j][i].state = "rejected"}

PendingHooks(j) == {i \in HookIds(j) : tests[j][i].state = "pending"}

\* discovery succeeded, every discovered hook was started and has fulfilled
AllResolved(j) ==
  /\ pc[j] \in {"tests", "resolved", "finished"}
  /\ FulfilledHooks(j) = HookIds(j)

\* position of hook i in the completion order of job j
Rank(j, i) == CHOOSE n \in 1..Len(order[j]) : order[j][n] = i

Errors(j) == [i \in HookIds(j) |-> tests[j][i].value.errors]

Warnings(j) == [i \in HookIds(j) |-> tests[j][i].value.warnings]

Info(j, i) == tests[j][i].value.information

\* fulfilled hooks of job j whose result has key k
Writers(j, k) == {i \in FulfilledHooks(j) : k \in DOMAIN Info(j, i)}

WrittenKeys(j) == UNION {DOMAIN Info(j, i) : i \in FulfilledHooks(j)}

\* the non-null issues of the fulfilled hooks, in the order of tests
IssuesInOrder(j) ==
  LET NotNull(x) == x # Null
  IN  SelectSeq([i \in HookIds(j) |-> tests[j][i].value.issue], NotNull)

\* the aggregate of the results of job j when all its hooks fulfilled
ExpectedReport(j) ==
  [ cycle       |-> <<"c", j>>,
    project     |-> <<"p", j>>,
    release     |-> IF j % 2 = 1 THEN Null ELSE <<"r", j>>,
    errors      |-> SumOver(Errors(j), HookIds(j)),
    warnings    |-> SumOver(Warnings(j), HookIds(j)),
    information |-> [k \in WrittenKeys(j) |-> Info(j, Max(Writers(j, k)))[k]],
    issues      |-> IssuesInOrder(j) ]

\* ------------------------------------------------------------------ claims
\* at most one event per job, each to 'houston', named cycle:finished and,
\* for a job whose hooks all resolved, carrying the aggregate of their results
C1_Safety ==
  /\ \A j \in Jobs : Cardinality(SentFor(j)) <= 1
  /\ \A k \in 1..Len(sent) :
       /\ sent[k].to = "houston"
       /\ sent[k].event = "cycle:finished"
       /\ AllResolved(sent[k].job) => sent[k].payload = ExpectedReport(sent[k].job)

\* C1: a cycle:start whose discovery succeeds and whose hooks all resolve is
\* eventually answered by exactly one cycle:finished, sent to 'houston', whose
\* payload is the aggregate of the job's hook results with the job's
\* identifiers.  A fulfilled hook stays fulfilled and a sent event stays sent,
\* so the answer is owed from some point on and for good.
C1_CycleFinished ==
  /\ []C1_Safety
  /\ <>[](\A j \in Jobs : AllResolved(j) => Cardinality(SentFor(j)) = 1)

\* two hooks of one job resolved and the job's single report has been sent
C1_Witness ==
  \E j \in Jobs :
    /\ Len(hooks[j]) = 2
    /\ AllResolved(j)
    /\ Cardinality(SentFor(j)) = 1
    /\ \E k \in SentFor(j) : sent[k].payload.errors + sent[k].payload.warnings > 0

\* C2: no cycle:finished is ever sent for a job one of whose hooks rejected
C2_RejectionSuppressesSend ==
  \A j \in Jobs : RejectedHooks(j) # {} => SentFor(j) = {}

\* hooks of job j that had fulfilled before the first rejection of the job
FulfilledBeforeReject(j) ==
  {i \in FulfilledHooks(j) : \A r \in RejectedHooks(j) : Rank(j, i) < Rank(j, r)}

\* C3: in every report errors and warnings are the sums over the hooks of the
\* run that completed successfully, also when another hook rejected
C3_SumsOverCompleted ==
  \A j \in Jobs :
    Reported(j) =>
      /\ report[j].errors = SumOver(Errors(j), FulfilledBeforeReject(j))
      /\ report[j].warnings = SumOver(Warnings(j), FulfilledBeforeReject(j))

\* C4: aggregation and publication start only after every hook of the run has
\* settled, also when another hook has already rejected
C4_Barrier ==
  \A j \in Jobs : Reported(j) => PendingHooks(j) = {}

\* C5: when a hook of the run rejected, the aggregation loop ran over nothing
\* (errors 0, warnings 0, no information, no issues) whatever the other hooks
\* returned, and the rejection was logged by runHooks, not by the handler
C5_RejectionCollapses ==
  \A j \in Jobs :
    (Reported(j) /\ RejectedHooks(j) # {}) =>
      /\ obj[j].errors = 0 /\ obj[j].warnings = 0
      /\ DOMAIN obj[j].information = {} /\ Len(obj[j].issues) = 0
      /\ report[j].errors = 0 /\ report[j].warnings = 0
      /\ DOMAIN report[j].information = {} /\ Len(report[j].issues) = 0
      /\ "error" \in logs[j]
      /\ "warn" \notin logs[j]

\* a hook fulfilled with errors and an issue, the other rejected, report built
C5_Witness ==
  \E j \in Jobs :
    /\ Reported(j)
    /\ RejectedHooks(j) # {}
    /\ \E i \in FulfilledBeforeReject(j) :
         tests[j][i].value.errors > 0 /\ tests[j][i].value.issue # Null

\* the part of a path after its last '/'
Basename(p) ==
  LET slashes == {i \in 1..Len(p) : p[i] = "/"}
  IN  IF slashes = {} THEN p ELSE SubSeq(p, Max(slashes) + 1, Len(p))

\* C6: every module discovery selects lies in a subdirectory and has a
\* filename that begins with lowercase(phase) + '.js'
C6_OnlyPhaseModules ==
  \A j \in Jobs : \A p \in Range(hooks[j]) :
    "/" \in Range(p) /\ StartsWith(Basename(p), TestFile(test))

\* C7: no module at the root of the tree (a path without '/') is selected
C7_NoRootModule ==
  \A j \in Jobs : \A p \in Range(hooks[j]) : "/" \in Range(p)

\* discovery ran on a tree holding a root module of another name than the
\* phase file and selected a module
C7_Witness ==
  \E j \in Jobs :
    /\ pc[j] = "tests"
    /\ Len(hooks[j]) > 0
    /\ \E p \in Range(tree) : "/" \notin Range(p) /\ ~StartsWith(p, TestFile(test))

\* C8: for a non-empty sequence of results that all resolved, errors and
\* warnings of the report are the sums of the results' errors and warnings
C8_Sums ==
  \A j \in Jobs :
    (Reported(j) /\ AllResolved(j) /\ Len(tests[j]) > 0) =>
      /\ report[j].errors = SumOver(Errors(j), HookIds(j))
      /\ report[j].warnings = SumOver(Warnings(j), HookIds(j))

\* two hooks with non-zero errors resolved and the report was built
C8_Witness ==
  \E j \in Jobs :
    /\ Reported(j) /\ AllResolved(j) /\ Len(tests[j]) = 2
    /\ \A i \in HookIds(j) : tests[j][i].value.errors > 0

\* C9 as stated: on a key collision the report holds the value of the hook
\* that completed later
C9_CompletionOrder ==
  \A j \in Jobs :
    (Reported(j) /\ AllResolved(j)) =>
      \A k \in WrittenKeys(j) :
        LET last == CHOOSE i \in Writers(j, k) : \A w \in Writers(j, k) : Rank(j, w) <= Rank(j, i)
        IN  report[j].information[k] = Info(j, last)[k]

\* C9 amended: every key of the report's information map has the value
\* written by the last hook in result-sequence (discovery) order among the
\* hooks that wrote it, whichever of them completed last
C9_SequenceOrder ==
  \A j \in Jobs :
    Reported(j) =>
      \A k \in DOMAIN report[j].information :
        /\ Writers(j, k) # {}
        /\ report[j].information[k] = Info(j, Max(Writers(j, k)))[k]

\* two hooks wrote different values to one key, the later in the sequence
\* completed first, and the report holds its value
C9_Witness ==
  \E j \in Jobs :
    /\ Reported(j) /\ AllResolved(j) /\ Len(tests[j]) = 2
    /\ "a" \in DOMAIN Info(j, 1) /\ "a" \in DOMAIN Info(j, 2)
    /\ Info(j, 1)["a"] # Info(j, 2)["a"]
    /\ Rank(j, 2) < Rank(j, 1)
    /\ report[j].information["a"] = Info(j, 2)["a"]

\* C10: the information map is the merge of the results handed to the loop,
\* in sequence order: its keys are the keys of the results, a key written by
\* several results has the value of the last of them in the sequence, and a
\* key written by one result has that result's value
C10_MergeInSequenceOrder ==
  \A j \in Jobs :
    Reported(j) =>
      LET R == IF all[j] = "fulfilled" THEN pkg[j] ELSE <<>>
          W(k) == {i \in 1..Len(R) : k \in DOMAIN R[i].information}
      IN  /\ DOMAIN report[j].information = UNION {DOMAIN R[i].information : i \in 1..Len(R)}
          /\ \A k \in DOMAIN report[j].information :
               report[j].information[k] = R[Max(W(k))].information[k]
          /\ all[j] = "fulfilled" => R = [i \in HookIds(j) |-> tests[j][i].value]

\* the first result wrote a and b, the second only a: the report has the
\* second's a and the first's b
C10_Witness ==
  \E j \in Jobs :
    /\ Reported(j) /\ AllResolved(j) /\ Len(tests[j]) = 2
    /\ DOMAIN Info(j, 1) = {"a", "b"} /\ DOMAIN Info(j, 2) = {"a"}
    /\ report[j].information["a"] = Info(j, 2)["a"]
    /\ report[j].information["b"] = Info(j, 1)["b"]
    /\ Info(j, 1)["a"] # Info(j, 2)["a"]

\* C11: the report's issues are exactly the non-null issues of the results,
\* one entry per result with a non-null issue, in the order of the result
\* sequence; a result with a null issue contributes no entry
C11_IssuesInOrder ==
  aggDone =>
    LET NotNull(x) == x # Null
        withIssue == {i \in 1..Len(aggR) : aggR[i].issue # Null}
    IN  /\ aggOut.issues = SelectSeq([i \in 1..Len(aggR) |-> aggR[i].issue], NotNull)
        /\ Len(aggOut.issues) = Cardinality(withIssue)
        /\ \A n \in 1..Len(aggOut.issues) : aggOut.issues[n] # Null

\* a null issue followed by two different issues: the report lists the two in
\* that order
C11_Witness ==
  /\ aggDone
  /\ Len(aggR) = 3
  /\ aggR[1].issue = Null /\ aggR[2].issue # Null /\ aggR[3].issue # Null
  /\ aggR[2].issue # aggR[3].issue
  /\ aggOut.issues = <<aggR[2].issue, aggR[3].issue>>

\* C12: every report carries the cycle, project and release identifiers of the
\* job that triggered the run, release being null exactly when the job has no
\* release, and no hook result overwrites the three fields
C12_JobIdentifiers ==
  aggDone =>
    /\ aggOut.cycle = <<"c", aggJob>>
    /\ aggOut.project = <<"p", aggJob>>
    /\ aggOut.release = (IF aggJob % 2 = 1 THEN Null ELSE <<"r", aggJob>>)
    /\ (aggOut.release = Null) <=> (Data(aggJob).release = Null)
    /\ DOMAIN aggOut = {"cycle", "project", "release", "errors", "warnings", "information", "issues"}

\* a result that carries cycle, project and release fields and an information
\* key cycle was aggregated for a job that has a release
C12_Witness ==
  /\ aggDone
  /\ Data(aggJob).release # Null
  /\ \E i \in 1..Len(aggR) : "cycle" \in DOMAIN aggR[i] /\ aggR[i].cycle # aggOut.cycle
  /\ "cycle" \in DOMAIN aggOut.information

\* C14: when discovery selects no hook, the run produces errors 0, warnings 0,
\* empty information and no issues with the job's cycle, project and release
C14_EmptyRun ==
  \A j \in Jobs :
    (Reported(j) /\ Len(hooks[j]) = 0) =>
      report[j] = [ cycle |-> <<"c", j>>, project |-> <<"p", j>>,
                    release |-> IF j % 2 = 1 THEN Null ELSE <<"r", j>>,
                    errors |-> 0, warnings |-> 0, information |-> <<>>, issues |-> <<>> ]

\* a job without a release ran on a tree with no module in a subdirectory and
\* its report was sent
C14_Witness ==
  \E j \in Jobs :
    /\ pc[j] = "finished" /\ Len(hooks[j]) = 0 /\ Data(j).release = Null
    /\ \E k \in SentFor(j) : sent[k].payload = report[j] /\ sent[k].payload.errors = 0

\* the run of job j has ended in the handler's .catch or is about to
Failing(j) == pc[j] \in {"rejected", "failed"}

\* the run of job j has completed: its report was sent or its failure logged
Completed(j) == pc[j] \in {"finished", "failed"}

\* every event before the j-th has been delivered
Due(j) == \A k \in Jobs : k < j => pc[k] # "idle"

\* C13: a run that fails by discovery failure or by a synchronous throw of a
\* hook constructor or run() publishes nothing, its failure is logged by the
\* handler, and the worker goes on: the next cycle:start is still taken and a
\* report that is ready is still sent
C13_FailureIsContained ==
  \A j \in Jobs :
    Failing(j) =>
      /\ SentFor(j) = {}
      /\ all[j] = "none"
      /\ pc[j] = "failed" => "warn" \in logs[j]
      /\ \A k \in Jobs \ {j} :
           /\ (pc[k] = "idle" /\ Due(k)) => ENABLED CycleStart(k)
           /\ pc[k] = "resolved" => ENABLED Send(k)

\* a hook of one job threw synchronously with an earlier hook already started,
\* the job failed without a report, and a later job has published its report
C13_Witness ==
  \E j, k \in Jobs :
    /\ j < k
    /\ pc[j] = "failed" /\ Len(hooks[j]) = 2 /\ Len(tests[j]) = 1
    /\ SentFor(j) = {}
    /\ pc[k] = "finished" /\ SentFor(k) # {}

\* C17: within one run discovery completes before any hook is constructed,
\* every discovered hook is started before aggregation, and aggregation has
\* completed before cycle:finished is sent
C17_StepsInOrder ==
  \A j \in Jobs :
    /\ pc[j] \in {"idle", "walk"} => (hooks[j] = <<>> /\ tests[j] = <<>> /\ all[j] = "none")
    /\ Len(tests[j]) <= Len(hooks[j])
    /\ Reported(j) => (Len(tests[j]) = Len(hooks[j]) /\ all[j] \in {"fulfilled", "rejected"})
    /\ pc[j] # "finished" => SentFor(j) = {}
    /\ \A k \in SentFor(j) : sent[k].payload = report[j] /\ sent[k].payload.cycle = <<"c", j>>

\* two hooks were discovered, started and fulfilled, and the report was sent
C17_Witness ==
  \E j \in Jobs :
    /\ pc[j] = "finished" /\ Len(hooks[j]) = 2 /\ AllResolved(j)
    /\ \E k \in SentFor(j) : sent[k].payload.errors > 1

\* C18 as stated: while the run of an earlier event has not completed, no hook
\* of a later event has started and no cycle:finished of it has been sent
C18_OneRunAtATime ==
  \A a, b \in Jobs :
    (a < b /\ ~Completed(a)) => (tests[b] = <<>> /\ SentFor(b) = {})

\* C18 amended: runs of different events are not serialised.  Each step of a
\* run is ready as soon as the run's own previous step is done, whatever the
\* state of the other runs, and a job's cycle:finished is sent once its own
\* runHooks has resolved
C18_RunsOverlap ==
  \A b \in Jobs :
    /\ (pc[b] = "idle" /\ Due(b)) => ENABLED CycleStart(b)
    /\ pc[b] = "walk" => ENABLED WalkResolve(b)
    /\ (pc[b] = "tests" /\ all[b] # "pending") => ENABLED Aggregate(b)
    /\ pc[b] = "resolved" => ENABLED Send(b)
    /\ SentFor(b) # {} => pc[b] = "finished"

\* the report of a later event has been sent while a hook of an earlier event
\* is still pending
C18_Witness ==
  \E a, b \in Jobs :
    /\ a < b
    /\ pc[a] = "tests" /\ PendingHooks(a) # {}
    /\ pc[b] = "finished" /\ SentFor(b) # {} /\ Len(tests[b]) > 0

\* C19: no cycle:finished is sent for a run one of whose hooks has not
\* settled, whatever the other hooks of the run do
C19_PendingHookStalls ==
  \A j \in Jobs : PendingHooks(j) # {} => SentFor(j) = {}

\* the results handed to the aggregation loop of job j
Handed(j) == IF all[j] = "fulfilled" THEN [i \in HookIds(j) |-> tests[j][i].value] ELSE <<>>

\* C20: under any interleaving of the runs, every report sent holds only what
\* the hooks of its own job returned and that job's identifiers, and at most
\* one cycle:finished is sent per cycle:start
C20_RunsIsolated ==
  \A j \in Jobs :
    /\ Cardinality(SentFor(j)) <= 1
    /\ \A k \in SentFor(j) :
         LET m == sent[k].payload
             R == Handed(j)
             NotNull(x) == x # Null
         IN  /\ m.cycle = <<"c", j>> /\ m.project = <<"p", j>>
             /\ m.release = (IF j % 2 = 1 THEN Null ELSE <<"r", j>>)
             /\ m.errors = SumOver([i \in 1..Len(R) |-> R[i].errors], 1..Len(R))
             /\ m.warnings = SumOver([i \in 1..Len(R) |-> R[i].warnings], 1..Len(R))
             /\ \A key \in DOMAIN m.information :
                  \E i \in 1..Len(R) : key \in DOMAIN R[i].information
                                       /\ m.information[key] = R[i].information[key]
             /\ m.issues = SelectSeq([i \in 1..Len(R) |-> R[i].issue], NotNull)

\* two runs overlapped: the later job's report of two hooks has been sent with
\* no errors while the earlier job holds a result with an error and still waits
C20_Witness ==
  \E a, b \in Jobs :
    /\ a < b
    /\ pc[a] = "tests" /\ PendingHooks(a) # {}
    /\ \E i \in FulfilledHooks(a) : tests[a][i].value.errors > 0
    /\ pc[b] = "finished" /\ Len(tests[b]) = 2
    /\ \E k \in SentFor(b) : sent[k].payload.errors = 0 /\ sent[k].payload.warnings = 4

\* the variables of the environment getEnvironmentConfig takes up
Recognised == {key \in DOMAIN env : StartsWith(key, environmentPrefix)}

\* the transform as stated: prefix segment dropped, lowercased, a segment that
\* is exactly env renamed, every other segment unchanged, joined with '.'
SegmentRename(key) ==
  LET segs == Splice1(Split(ToLowerCase(key), "_"))
  IN  Join([n \in 1..Len(segs) |->
              IF segs[n] = <<"e", "n", "v">> THEN KEnvironment ELSE segs[n]], ".")

\* C15: every recognised environment variable is stored under its name with
\* the prefix segment dropped, lowercased, every segment that is exactly env
\* renamed to environment, every other segment unchanged, joined with '.'
C15_SegmentRename ==
  cpc # "start" =>
    \A key \in Recognised :
      /\ SegmentRename(key) \in DOMAIN envConf
      /\ envConf[SegmentRename(key)] = NumberOrString(env[key])

\* C16: in the Config getConfig returns, a key the environment sets has the
\* environment's value, a key the file sets and the environment does not has
\* the file's value, and any other key has the program's value
C16_Precedence ==
  cpc = "done" =>
    /\ DOMAIN config = DOMAIN progConf \cup DOMAIN fileConf \cup DOMAIN envConf
    /\ \A k \in DOMAIN config :
         config[k] = IF k \in DOMAIN envConf THEN envConf[k]
                     ELSE IF k \in DOMAIN fileConf THEN fileConf[k]
                     ELSE progConf[k]

\* the file and the environment set log.level to different values, the program
\* and the file set houston.version to different values, and the environment
\* does not set houston.version
C16_Witness ==
  /\ cpc = "done"
  /\ KLogLevel \in DOMAIN fileConf /\ KLogLevel \in DOMAIN envConf
  /\ fileConf[KLogLevel] # envConf[KLogLevel]
  /\ config[KLogLevel] = envConf[KLogLevel]
  /\ KVersion \in DOMAIN progConf /\ KVersion \in DOMAIN fileConf
  /\ KVersion \notin DOMAIN envConf
  /\ progConf[KVersion] # fileConf[KVersion]
  /\ config[KVersion] = fileConf[KVersion]
====
